---- MODULE Spec2Model ----
(***************************************************************************)
(* rdash: a terminal dashboard that stores program definitions and runs    *)
(* them.  The model follows src/src/config.rs (the program store and its   *)
(* persisted document) and src/src/ui.rs (the Dashboard state machine).    *)
(*                                                                         *)
(* Strings are sequences of one-character strings.  An Option is a         *)
(* sequence of length 0 (None) or 1 (Some).  A handler that calls the      *)
(* file system or the terminal or spawns a child is cut at that call; pc   *)
(* is the position of the single thread, and the next input event is read  *)
(* only at pc = "read".                                                    *)
(***************************************************************************)
EXTENDS Integers, Sequences, FiniteSets, TLC

VARIABLES
    pc,              \* position of the thread (see above)
    result,          \* what Dashboard::run returned: "none", "Ok", "Err"
    raw,             \* terminal raw mode enabled
    alt,             \* alternate screen entered
    config,          \* Dashboard.config.programs: key -> ProgramEntry
    sorted,          \* keys in the order Config::get_programs returns them now
    selected_index,  \* Dashboard.selected_index
    mode,            \* Dashboard.mode
    add_form,        \* Dashboard.add_form
    status_message,  \* Dashboard.status_message (Option)
    output_data,     \* Dashboard.output_data (Option of <<name, output>>)
    disk,            \* the persisted document (Option of a JSON object)
    local,           \* locals of the handler that is under way
    failures,        \* history: persistence operations that failed so far
    down_run,        \* history: <<consecutive down keys, selected_index before them>>
    fn_in,           \* input of the pure function under check
    fn_out           \* its result (Option)

vars == <<pc, result, raw, alt, config, sorted, selected_index, mode, add_form,
          status_message, output_data, disk, local, failures, down_run,
          fn_in, fn_out>>

-----------------------------------------------------------------------------
(* Bounds of the model *)

\* the add key is offered while the store holds fewer programs than this
MaxPrograms == 2
\* persistence operations that may fail in one run
MaxFailures == 2
\* longest captured text in the check of the combination rule
MaxOut == 2
\* longest output line, in characters, and widest interior of the output box
\* in the check of the truncation
MaxLine == 4
MaxWidth == 5
\* largest number of columns and of rows of the terminal in the check of the
\* frame's arithmetic
MaxSize == 8

-----------------------------------------------------------------------------
(* Strings *)

None == << >>
Some(x) == <<x>>

\* the characters in use, in ascending byte order
Ascii ==
    <<"\n", " ", ".", ":",
      "A", "B", "C", "D", "E", "F", "G", "H", "I", "J", "K", "L", "M",
      "N", "O", "P", "Q", "R", "S", "T", "U", "V", "W", "X", "Y", "Z",
      "a", "b", "c", "d", "e", "f", "g", "h", "i", "j", "k", "l", "m",
      "n", "o", "p", "q", "r", "s", "t", "u", "v", "w", "x", "y", "z">>

Code(c) == CHOOSE i \in 1..Len(Ascii) : Ascii[i] = c

\* String::cmp: lexicographic on bytes
RECURSIVE StrLess(_, _)
StrLess(s, t) ==
    IF t = << >> THEN FALSE
    ELSE IF s = << >> THEN TRUE
    ELSE IF Code(Head(s)) # Code(Head(t)) THEN Code(Head(s)) < Code(Head(t))
    ELSE StrLess(Tail(s), Tail(t))

StrLeq(s, t) == s = t \/ StrLess(s, t)

\* strings over chars of length at most n
RECURSIVE StringsUpTo(_, _)
StringsUpTo(chars, n) ==
    IF n = 0 THEN { << >> }
    ELSE LET shorter == StringsUpTo(chars, n - 1)
         IN  shorter \cup { Append(s, c) : s \in shorter, c \in chars }

\* String::pop
Pop(s) == IF s = << >> THEN s ELSE SubSeq(s, 1, Len(s) - 1)

\* char::is_whitespace for the characters in use
IsWhitespace(c) == c \in {" ", "\n"}

\* str::split_whitespace: the maximal runs of non-whitespace characters
RECURSIVE SplitFrom(_, _, _)
SplitFrom(s, cur, acc) ==
    IF s = << >> THEN (IF cur = << >> THEN acc ELSE Append(acc, cur))
    ELSE IF IsWhitespace(Head(s))
         THEN SplitFrom(Tail(s), << >>, IF cur = << >> THEN acc ELSE Append(acc, cur))
         ELSE SplitFrom(Tail(s), Append(cur, Head(s)), acc)

split_whitespace(s) == SplitFrom(s, << >>, << >>)

-----------------------------------------------------------------------------
(* config.rs: ProgramEntry, Config *)

ProgramEntry(name, display_name, command, args, description, run_with_sudo, show_output) ==
    [name |-> name, display_name |-> display_name, command |-> command,
     args |-> args, description |-> description,
     run_with_sudo |-> run_with_sudo, show_output |-> show_output]

S_htop == <<"h", "t", "o", "p">>
S_vim == <<"v", "i", "m">>
S_SystemMonitor == <<"S", "y", "s", "t", "e", "m", " ", "M", "o", "n", "i", "t", "o", "r">>
S_TextEditor == <<"T", "e", "x", "t", " ", "E", "d", "i", "t", "o", "r">>
S_SystemResourceMonitor ==
    <<"S", "y", "s", "t", "e", "m", " ", "r", "e", "s", "o", "u", "r", "c", "e", " ",
      "m", "o", "n", "i", "t", "o", "r">>
S_VimTextEditor ==
    <<"V", "i", "m", " ", "t", "e", "x", "t", " ", "e", "d", "i", "t", "o", "r">>

EmptyPrograms == [k \in {} |-> 0]

\* HashMap::insert
Insert(programs, key, entry) ==
    [k \in DOMAIN programs \cup {key} |-> IF k = key THEN entry ELSE programs[k]]

\* HashMap::remove
Remove(programs, key) == [k \in DOMAIN programs \ {key} |-> programs[k]]

\* impl Default for Config
Config_default ==
    Insert(
        Insert(EmptyPrograms, S_htop,
               ProgramEntry(S_htop, S_SystemMonitor, S_htop, << >>,
                            Some(S_SystemResourceMonitor), FALSE, FALSE)),
        S_vim,
        ProgramEntry(S_vim, S_TextEditor, S_vim, << >>,
                     Some(S_VimTextEditor), FALSE, FALSE))

\* the entry is stored under its display name
add_program_by_display_name(programs, entry) ==
    Insert(programs, entry.display_name, entry)

\* Config::add_program
add_program(programs, entry) == Insert(programs, entry.name, entry)

\* Config::remove_program: the map afterwards, and whether the key was there
remove_program(programs, name) ==
    [programs |-> Remove(programs, name), removed |-> name \in DOMAIN programs]

\* the orders of the keys that sort_by(display_name) can produce: the sort is
\* stable and the order in which a HashMap yields its values is unspecified, so
\* entries with equal display names come in any order
RECURSIVE Perms(_)
Perms(S) ==
    IF S = {} THEN { << >> }
    ELSE UNION { { <<k>> \o p : p \in Perms(S \ {k}) } : k \in S }

get_programs_orders(programs) ==
    { p \in Perms(DOMAIN programs) :
        \A i \in 1..(Len(p) - 1) :
            StrLeq(programs[p[i]].display_name, programs[p[i + 1]].display_name) }

\* Config::get_programs: the entries in the current order
get_programs == [i \in 1..Len(sorted) |-> config[sorted[i]]]

\* the order after a key left the map: the others keep their places
OrderWithout(order, key) == SelectSeq(order, LAMBDA k : k # key)

-----------------------------------------------------------------------------
(* The persisted document: serde_json's value for a Config *)

JStr(s) == <<"string", s>>
JBool(b) == <<"bool", b>>
JArr(a) == <<"array", a>>
JNull == <<"null">>

\* #[derive(Serialize)] for ProgramEntry
entry_to_json(e) ==
    [name |-> JStr(e.name), display_name |-> JStr(e.display_name),
     command |-> JStr(e.command),
     args |-> JArr([i \in 1..Len(e.args) |-> JStr(e.args[i])]),
     description |-> IF e.description = None THEN JNull ELSE JStr(e.description[1]),
     run_with_sudo |-> JBool(e.run_with_sudo), show_output |-> JBool(e.show_output)]

\* #[derive(Deserialize)] for ProgramEntry
entry_from_json(j) ==
    ProgramEntry(j.name[2], j.display_name[2], j.command[2],
                 [i \in 1..Len(j.args[2]) |-> j.args[2][i][2]],
                 IF j.description = JNull THEN None ELSE Some(j.description[2]),
                 j.run_with_sudo[2], j.show_output[2])

\* serde_json::to_string_pretty(&Config)
to_json(programs) == [k \in DOMAIN programs |-> entry_to_json(programs[k])]

\* serde_json::from_str::<Config>
from_json(doc) == [k \in DOMAIN doc |-> entry_from_json(doc[k])]

\* a failed write leaves an empty document behind
Config_save_truncating(programs, document, io_ok) ==
    IF io_ok THEN [ok |-> TRUE, disk |-> Some(to_json(programs))]
    ELSE [ok |-> FALSE, disk |-> Some(to_json([k \in {} |-> 0]))]

\* Config::save: io_ok is whether create_dir_all and fs::write succeed; a failed
\* write leaves the document as it was
Config_save(programs, document, io_ok) ==
    IF io_ok THEN [ok |-> TRUE, disk |-> Some(to_json(programs))]
    ELSE [ok |-> FALSE, disk |-> document]

\* the defaults are returned without being written out
Config_load_unsaved(document, io_ok) ==
    IF document # None
    THEN IF io_ok
         THEN [ok |-> TRUE, programs |-> from_json(document[1]), disk |-> document]
         ELSE [ok |-> FALSE, programs |-> EmptyPrograms, disk |-> document]
    ELSE [ok |-> TRUE, programs |-> Config_default, disk |-> document]

\* Config::load: io_ok is whether the file system call of the taken branch
\* succeeds (read_to_string of an existing document, save of the defaults)
Config_load(document, io_ok) ==
    IF document # None
    THEN IF io_ok
         THEN [ok |-> TRUE, programs |-> from_json(document[1]), disk |-> document]
         ELSE [ok |-> FALSE, programs |-> EmptyPrograms, disk |-> document]
    ELSE LET saved == Config_save(Config_default, document, io_ok)
         IN  [ok |-> saved.ok, programs |-> Config_default, disk |-> saved.disk]

-----------------------------------------------------------------------------
(* ui.rs: AddProgramForm *)

\* AddProgramForm::new
AddProgramForm_new ==
    [step |-> 0, name |-> << >>, display_name |-> << >>, command |-> << >>,
     args |-> << >>, description |-> << >>,
     run_with_sudo |-> FALSE, show_output |-> FALSE]

\* AddProgramForm::current_value
current_value(form) ==
    CASE form.step = 0 -> form.name
      [] form.step = 1 -> form.display_name
      [] form.step = 2 -> form.command
      [] form.step = 3 -> form.args
      [] form.step = 4 -> form.description
      [] form.step = 5 -> (IF form.run_with_sudo THEN <<"y">> ELSE <<"n">>)
      [] form.step = 6 -> (IF form.show_output THEN <<"y">> ELSE <<"n">>)
      [] OTHER -> << >>

\* value.to_lowercase().starts_with('y')
StartsWithY(value) == value # << >> /\ Head(value) \in {"y", "Y"}

\* AddProgramForm::set_current_value
set_current_value(form, value) ==
    CASE form.step = 0 -> [form EXCEPT !.name = value]
      [] form.step = 1 -> [form EXCEPT !.display_name = value]
      [] form.step = 2 -> [form EXCEPT !.command = value]
      [] form.step = 3 -> [form EXCEPT !.args = value]
      [] form.step = 4 -> [form EXCEPT !.description = value]
      [] form.step = 5 -> [form EXCEPT !.run_with_sudo = StartsWithY(value)]
      [] form.step = 6 -> [form EXCEPT !.show_output = StartsWithY(value)]
      [] OTHER -> form

\* is_complete without the check of the command
is_complete_no_command(form) == form.name # << >> /\ form.display_name # << >>

\* AddProgramForm::is_complete
is_complete(form) ==
    form.name # << >> /\ form.display_name # << >> /\ form.command # << >>

\* the arguments text is taken as one argument
form_entry_unsplit(form) ==
    ProgramEntry(form.name, form.display_name, form.command,
                 IF form.args = << >> THEN << >> ELSE <<form.args>>,
                 IF form.description = << >> THEN None ELSE Some(form.description),
                 form.run_with_sudo, form.show_output)

\* the ProgramEntry that save_new_program builds from the form
form_entry(form) ==
    ProgramEntry(form.name, form.display_name, form.command,
                 IF form.args = << >> THEN << >> ELSE split_whitespace(form.args),
                 IF form.description = << >> THEN None ELSE Some(form.description),
                 form.run_with_sudo, form.show_output)

-----------------------------------------------------------------------------
(* Key events and status texts *)

Esc == <<"Esc">>
Enter == <<"Enter">>
Backspace == <<"Backspace">>
Down == <<"Down">>
Up == <<"Up">>
Tab == <<"Tab">>
Char(c) == <<"Char", c>>

\* the text of an io::Error
S_error == <<"e", "r", "r", "o", "r">>

\* format!: the pieces of the message in order
Msg_Executed(display_name) == <<"Executed: ", display_name>>
Msg_ExecutedWithErrors(display_name) == <<"Executed with errors: ", display_name>>
Msg_FailedToExecute(display_name) == <<"Failed to execute: ", display_name>>
Msg_ErrorLaunching(display_name, e) == <<"Error launching ", display_name, ": ", e>>
Msg_ErrorSaving(e) == <<"Error saving config: ", e>>
Msg_Deleted(display_name) == <<"Deleted: ", display_name>>
Msg_Added(display_name) == <<"Added: ", display_name>>
Msg_Reloaded == <<"Configuration reloaded">>
Msg_ErrorReloading(e) == <<"Error reloading config: ", e>>

S_STDOUT == <<"S", "T", "D", "O", "U", "T", ":", "\n">>
S_STDERR == <<"\n", "\n", "S", "T", "D", "E", "R", "R", ":", "\n">>

\* the case of an empty stdout is missing
combined_output_labelled(stdout, stderr) ==
    IF stderr = << >> THEN stdout
    ELSE S_STDOUT \o stdout \o S_STDERR \o stderr

\* launch_selected_program: the text shown for a captured run
combined_output(stdout, stderr) ==
    IF stderr = << >> THEN stdout
    ELSE IF stdout = << >> THEN stderr
    ELSE S_STDOUT \o stdout \o S_STDERR \o stderr

-----------------------------------------------------------------------------
(* Dashboard::new, Dashboard::run *)

\* documents the program may find when it starts: none, an empty store
InitDisks == { None, Some(to_json(EmptyPrograms)) }

pure == <<fn_in, fn_out>>
history == <<failures, down_run>>
NoDownRun == down_run' = <<0, 0>>

\* the state Dashboard::new returns, for each document whose load succeeds
Init ==
    /\ \E d \in InitDisks :
         LET loaded == Config_load(d, TRUE)
         IN  /\ config = loaded.programs
             /\ disk = loaded.disk
             /\ sorted \in get_programs_orders(loaded.programs)
    /\ selected_index = 0
    /\ mode = "Normal"
    /\ add_form = AddProgramForm_new
    /\ status_message = None
    /\ output_data = None
    /\ pc = "run"
    /\ result = "none"
    /\ raw = FALSE
    /\ alt = FALSE
    /\ local = None
    /\ failures = 0
    /\ down_run = <<0, 0>>
    /\ fn_in = << >>
    /\ fn_out = None

dashboard == <<config, sorted, selected_index, mode, add_form, status_message,
               output_data, disk, local>>

\* Dashboard::run up to main_loop: enable_raw_mode()?, then
\* execute!(EnterAlternateScreen, Hide)?
run_begin(outcome) ==
    /\ pc = "run"
    /\ raw' = (outcome # "raw_failed")
    /\ alt' = (outcome = "ok")
    /\ pc' = IF outcome = "ok" THEN "read" ELSE "done"
    /\ result' = IF outcome = "ok" THEN "none" ELSE "Err"
    /\ UNCHANGED <<dashboard, history, pure>>

\* Dashboard::run after main_loop returned res with the terminal as given:
\* execute!(LeaveAlternateScreen, Show)?, disable_raw_mode()?, result
run_end(res, cleanup, rawNow, altNow) ==
    /\ pc' = "done"
    /\ alt' = (cleanup = "leave_failed" /\ altNow)
    /\ raw' = (cleanup # "ok" /\ rawNow)
    /\ result' = IF cleanup = "ok" THEN res ELSE "Err"

CleanupOutcomes == {"ok", "leave_failed", "disable_failed"}

\* main_loop: self.draw()? or event::read()? fails
main_loop_io_error ==
    /\ pc = "read"
    /\ \E cleanup \in CleanupOutcomes : run_end("Err", cleanup, raw, alt)
    /\ NoDownRun
    /\ UNCHANGED <<dashboard, failures, pure>>

-----------------------------------------------------------------------------
(* Dashboard::handle_normal_mode *)

\* programs.get(self.selected_index) is Some
HasSelected == selected_index < Len(sorted)
SelectedKey == sorted[selected_index + 1]
SelectedProgram == config[SelectedKey]

\* KeyCode::Char('j') | KeyCode::Down
down_index(index, len) == (index + 1) % len

\* KeyCode::Char('k') | KeyCode::Up
up_index(index, len) == IF index = 0 THEN len - 1 ELSE index - 1

\* KeyCode::Char('q') | KeyCode::Esc => return Ok(true): main_loop breaks and
\* run cleans up
normal_quit ==
    /\ \E cleanup \in CleanupOutcomes : run_end("Ok", cleanup, raw, alt)
    /\ NoDownRun
    /\ UNCHANGED <<dashboard, failures, pure>>

normal_down ==
    /\ selected_index' =
         IF Len(sorted) # 0 THEN down_index(selected_index, Len(sorted))
         ELSE selected_index
    /\ down_run' =
         IF Len(sorted) = 0 THEN <<0, 0>>
         ELSE IF down_run[1] = 0 \/ down_run[1] >= Len(sorted)
              THEN <<1, selected_index>>
              ELSE <<down_run[1] + 1, down_run[2]>>
    /\ UNCHANGED <<pc, result, raw, alt, config, sorted, mode, add_form,
                   status_message, output_data, disk, local, failures, pure>>

normal_up ==
    /\ selected_index' =
         IF Len(sorted) # 0 THEN up_index(selected_index, Len(sorted))
         ELSE selected_index
    /\ NoDownRun
    /\ UNCHANGED <<pc, result, raw, alt, config, sorted, mode, add_form,
                   status_message, output_data, disk, local, failures, pure>>

\* KeyCode::Char('a')
normal_add ==
    /\ mode' = "AddProgram"
    /\ add_form' = AddProgramForm_new
    /\ NoDownRun
    /\ UNCHANGED <<pc, result, raw, alt, config, sorted, selected_index,
                   status_message, output_data, disk, local, failures, pure>>

\* KeyCode::Char('h')
normal_help ==
    /\ mode' = "Help"
    /\ NoDownRun
    /\ UNCHANGED <<pc, result, raw, alt, config, sorted, selected_index, add_form,
                   status_message, output_data, disk, local, failures, pure>>

\* _ => {}
normal_other ==
    /\ NoDownRun
    /\ UNCHANGED <<pc, result, raw, alt, dashboard, failures, pure>>

-----------------------------------------------------------------------------
(* Dashboard::launch_selected_program *)

SpawnOutcomes == {"spawn_failed", "exit_zero", "exit_nonzero"}

\* the texts a captured child may write to one stream in the runs of the machine
CapturedTexts == { << >>, <<"A">> }

\* nothing is selected: if let Some(program) does not match
launch_nothing ==
    /\ ~HasSelected
    /\ NoDownRun
    /\ UNCHANGED <<pc, result, raw, alt, dashboard, failures, pure>>

\* the output screen opens also when the spawn failed
captured_mode_always_shown(outcome) == "ShowOutput"

\* the mode and the output record after cmd.output() ended as given
captured_mode(outcome) == IF outcome = "spawn_failed" THEN mode ELSE "ShowOutput"

captured_output_data(outcome, display_name, stdout, stderr) ==
    IF outcome = "spawn_failed" THEN output_data
    ELSE Some(<<display_name, combined_output(stdout, stderr)>>)

captured_status(outcome, display_name) ==
    CASE outcome = "exit_zero" -> Msg_Executed(display_name)
      [] outcome = "exit_nonzero" -> Msg_ExecutedWithErrors(display_name)
      [] OTHER -> Msg_ErrorLaunching(display_name, S_error)

\* program.show_output: cmd.output() and the match on its result
launch_captured(outcome, stdout, stderr) ==
    /\ HasSelected
    /\ SelectedProgram.show_output
    /\ output_data' =
         captured_output_data(outcome, SelectedProgram.display_name, stdout, stderr)
    /\ mode' = captured_mode(outcome)
    /\ status_message' = Some(captured_status(outcome, SelectedProgram.display_name))
    /\ NoDownRun
    /\ UNCHANGED <<pc, result, raw, alt, config, sorted, selected_index, add_form,
                   disk, local, failures, pure>>

ReleaseOutcomes == {"ok", "leave_failed", "disable_failed"}

\* the terminal after execute!(LeaveAlternateScreen, Show)? and
\* disable_raw_mode()? ended as given
release_alt(outcome) == IF outcome = "leave_failed" THEN alt ELSE FALSE
release_raw(outcome) == IF outcome = "ok" THEN FALSE ELSE raw

\* !program.show_output, up to the spawn: the terminal is handed over; an
\* error of either call leaves launch_selected_program, and main_loop, by ?
launch_release(outcome) ==
    /\ HasSelected
    /\ ~SelectedProgram.show_output
    /\ IF outcome = "ok"
       THEN /\ alt' = release_alt(outcome)
            /\ raw' = release_raw(outcome)
            /\ pc' = "child"
            /\ UNCHANGED result
       ELSE \E cleanup \in CleanupOutcomes :
                run_end("Err", cleanup, release_raw(outcome), release_alt(outcome))
    /\ NoDownRun
    /\ UNCHANGED <<dashboard, failures, pure>>

foreground_status(outcome, display_name) ==
    CASE outcome = "exit_zero" -> Msg_Executed(display_name)
      [] outcome = "exit_nonzero" -> Msg_FailedToExecute(display_name)
      [] OTHER -> Msg_ErrorLaunching(display_name, S_error)

ReacquireOutcomes == {"ok", "raw_failed", "enter_failed"}

\* raw mode is not switched back on
reacquire_raw_skipped(outcome) == FALSE

\* the terminal after enable_raw_mode()? and execute!(EnterAlternateScreen,
\* Hide)? ended as given
reacquire_raw(outcome) == outcome # "raw_failed"
reacquire_alt(outcome) == outcome = "ok"

\* cmd.status() ends, then the terminal is taken back (an error leaves
\* main_loop by ?) and the child's result is matched
launch_child(spawn, reacquire) ==
    /\ pc = "child"
    /\ IF reacquire = "ok"
       THEN /\ raw' = reacquire_raw(reacquire)
            /\ alt' = reacquire_alt(reacquire)
            /\ pc' = "read"
            /\ status_message' =
                 Some(foreground_status(spawn, SelectedProgram.display_name))
            /\ UNCHANGED result
       ELSE /\ \E cleanup \in CleanupOutcomes :
                  run_end("Err", cleanup, reacquire_raw(reacquire),
                          reacquire_alt(reacquire))
            /\ UNCHANGED status_message
    /\ NoDownRun
    /\ UNCHANGED <<config, sorted, selected_index, mode, add_form, output_data,
                   disk, local, failures, pure>>

-----------------------------------------------------------------------------
(* Dashboard::delete_selected_program *)

\* nothing is selected, or remove_program finds no entry under the name
delete_nothing ==
    /\ IF HasSelected THEN ~remove_program(config, SelectedProgram.name).removed
       ELSE TRUE
    /\ NoDownRun
    /\ UNCHANGED <<pc, result, raw, alt, dashboard, failures, pure>>

\* up to self.config.save(): the entry under the selected program's name
\* leaves the store
delete_remove ==
    /\ HasSelected
    /\ remove_program(config, SelectedProgram.name).removed
    /\ config' = remove_program(config, SelectedProgram.name).programs
    /\ sorted' = OrderWithout(sorted, SelectedProgram.name)
    /\ local' = Some([name |-> SelectedProgram.name,
                      display_name |-> SelectedProgram.display_name])
    /\ pc' = "delete_save"
    /\ NoDownRun
    /\ UNCHANGED <<result, raw, alt, selected_index, mode, add_form, status_message,
                   output_data, disk, failures, pure>>

\* selected_index after the save of a delete ended as given, the list now
\* having new_len entries
delete_index(saved, index, new_len) ==
    IF saved /\ new_len > 0 /\ index >= new_len THEN new_len - 1 ELSE index

delete_status(saved, display_name) ==
    IF saved THEN Msg_Deleted(display_name) ELSE Msg_ErrorSaving(S_error)

\* self.config.save() and what follows it
delete_save(io_ok) ==
    /\ pc = "delete_save"
    /\ disk' = Config_save(config, disk, io_ok).disk
    /\ status_message' = Some(delete_status(io_ok, local[1].display_name))
    /\ selected_index' = delete_index(io_ok, selected_index, Len(sorted))
    /\ failures' = IF io_ok THEN failures ELSE failures + 1
    /\ local' = None
    /\ pc' = "read"
    /\ NoDownRun
    /\ UNCHANGED <<result, raw, alt, config, sorted, mode, add_form, output_data,
                   pure>>

-----------------------------------------------------------------------------
(* Dashboard::reload_config *)

\* the selection is not reset
reload_index_kept(loaded) == selected_index

reload_programs(loaded) == IF loaded.ok THEN loaded.programs ELSE config
reload_index(loaded) == IF loaded.ok THEN 0 ELSE selected_index
reload_status(loaded) ==
    IF loaded.ok THEN Msg_Reloaded ELSE Msg_ErrorReloading(S_error)

reload_config(io_ok) ==
    LET loaded == Config_load(disk, io_ok)
    IN  /\ config' = reload_programs(loaded)
        /\ sorted' \in (IF loaded.ok THEN get_programs_orders(loaded.programs)
                        ELSE {sorted})
        /\ selected_index' = reload_index(loaded)
        /\ status_message' = Some(reload_status(loaded))
        /\ disk' = loaded.disk
        /\ failures' = IF loaded.ok THEN failures ELSE failures + 1
        /\ NoDownRun
        /\ UNCHANGED <<pc, result, raw, alt, mode, add_form, output_data, local,
                       pure>>

-----------------------------------------------------------------------------
(* Dashboard::handle_add_program_mode, Dashboard::save_new_program *)

\* Esc resets the form and stays in the wizard
add_cancel_stays ==
    /\ add_form' = AddProgramForm_new
    /\ NoDownRun
    /\ UNCHANGED <<pc, result, raw, alt, config, sorted, selected_index, mode,
                   status_message, output_data, disk, local, failures, pure>>

\* the form is left as it is
add_cancel_keeps_form ==
    /\ mode' = "Normal"
    /\ NoDownRun
    /\ UNCHANGED <<pc, result, raw, alt, config, sorted, selected_index, add_form,
                   status_message, output_data, disk, local, failures, pure>>

\* KeyCode::Esc
add_cancel ==
    /\ mode' = "Normal"
    /\ add_form' = AddProgramForm_new
    /\ NoDownRun
    /\ UNCHANGED <<pc, result, raw, alt, config, sorted, selected_index,
                   status_message, output_data, disk, local, failures, pure>>

\* Enter moves the form on from step 6 whatever the fields hold
advances_unchecked(form) == form.step < 7

\* whether Enter moves the form on
advances(form) == form.step < 7 /\ (form.step < 6 \/ is_complete(form))

\* step 7 waits for one more Enter before the save
add_enter_review ==
    /\ add_form' = IF advances(add_form) THEN [add_form EXCEPT !.step = @ + 1]
                   ELSE add_form
    /\ pc' = IF add_form.step = 7 THEN "save_new_program" ELSE pc
    /\ NoDownRun
    /\ UNCHANGED <<result, raw, alt, config, sorted, selected_index, mode,
                   status_message, output_data, disk, local, failures, pure>>

\* KeyCode::Enter: self.add_form.step += 1 when the form may move on; at step 7
\* save_new_program is called
add_enter ==
    /\ add_form' = IF advances(add_form) THEN [add_form EXCEPT !.step = @ + 1]
                   ELSE add_form
    /\ pc' = IF advances(add_form) /\ add_form.step + 1 = 7 THEN "save_new_program"
             ELSE pc
    /\ NoDownRun
    /\ UNCHANGED <<result, raw, alt, config, sorted, selected_index, mode,
                   status_message, output_data, disk, local, failures, pure>>

\* Backspace leaves the flags alone
backspace_form_text_only(form) ==
    IF form.step < 5 THEN set_current_value(form, Pop(current_value(form))) ELSE form

\* KeyCode::Backspace
backspace_form(form) ==
    IF form.step < 7 THEN set_current_value(form, Pop(current_value(form))) ELSE form

add_backspace ==
    /\ add_form' = backspace_form(add_form)
    /\ NoDownRun
    /\ UNCHANGED <<pc, result, raw, alt, config, sorted, selected_index, mode,
                   status_message, output_data, disk, local, failures, pure>>

\* the capital letters are not accepted at the flag steps
char_form_lowercase_only(form, c) ==
    IF form.step >= 7 THEN form
    ELSE IF form.step = 5 \/ form.step = 6
         THEN IF c \in {"y", "n"} THEN set_current_value(form, <<c>>)
              ELSE form
         ELSE set_current_value(form, Append(current_value(form), c))

\* KeyCode::Char(c)
char_form(form, c) ==
    IF form.step >= 7 THEN form
    ELSE IF form.step = 5 \/ form.step = 6
         THEN IF c \in {"y", "Y", "n", "N"} THEN set_current_value(form, <<c>>)
              ELSE form
         ELSE set_current_value(form, Append(current_value(form), c))

add_char(c) ==
    /\ add_form' = char_form(add_form, c)
    /\ NoDownRun
    /\ UNCHANGED <<pc, result, raw, alt, config, sorted, selected_index, mode,
                   status_message, output_data, disk, local, failures, pure>>

\* _ => {}
add_other ==
    /\ NoDownRun
    /\ UNCHANGED <<pc, result, raw, alt, dashboard, failures, pure>>

\* save_new_program up to self.config.save(): the entry is built and
\* self.config.add_program(entry) stores it
save_new_program_add ==
    /\ pc = "save_new_program"
    /\ config' = add_program(config, form_entry(add_form))
    /\ sorted' \in get_programs_orders(config')
    /\ pc' = "add_save"
    /\ NoDownRun
    /\ UNCHANGED <<result, raw, alt, selected_index, mode, add_form, status_message,
                   output_data, disk, local, failures, pure>>

add_status(saved, display_name) ==
    IF saved THEN Msg_Added(display_name) ELSE Msg_ErrorSaving(S_error)

\* the wizard stays open when the save failed
saved_mode_on_success_only(saved) == IF saved THEN "Normal" ELSE "AddProgram"

\* the mode handle_add_program_mode sets once save_new_program returned
saved_mode(saved) == "Normal"

\* self.config.save() in save_new_program and what follows it, then
\* self.mode = Mode::Normal in handle_add_program_mode
save_new_program_save(io_ok) ==
    /\ pc = "add_save"
    /\ disk' = Config_save(config, disk, io_ok).disk
    /\ status_message' = Some(add_status(io_ok, add_form.display_name))
    /\ add_form' = AddProgramForm_new
    /\ mode' = saved_mode(io_ok)
    /\ failures' = IF io_ok THEN failures ELSE failures + 1
    /\ pc' = "read"
    /\ NoDownRun
    /\ UNCHANGED <<result, raw, alt, config, sorted, selected_index, output_data,
                   local, pure>>

-----------------------------------------------------------------------------
(* Dashboard::handle_help_mode, Dashboard::handle_show_output_mode *)

\* the keys that close the help screen end main_loop
help_close_quits == normal_quit

\* KeyCode::Esc | KeyCode::Char('q') | KeyCode::Char('h')
help_close ==
    /\ mode' = "Normal"
    /\ NoDownRun
    /\ UNCHANGED <<pc, result, raw, alt, config, sorted, selected_index, add_form,
                   status_message, output_data, disk, local, failures, pure>>

\* _ => {}
help_other ==
    /\ NoDownRun
    /\ UNCHANGED <<pc, result, raw, alt, dashboard, failures, pure>>

\* the output record is kept
output_close_keeps_record ==
    /\ mode' = "Normal"
    /\ NoDownRun
    /\ UNCHANGED <<pc, result, raw, alt, config, sorted, selected_index, add_form,
                   status_message, output_data, disk, local, failures, pure>>

\* KeyCode::Esc | KeyCode::Char(' ') | KeyCode::Char('q')
output_close ==
    /\ mode' = "Normal"
    /\ output_data' = None
    /\ NoDownRun
    /\ UNCHANGED <<pc, result, raw, alt, config, sorted, selected_index, add_form,
                   status_message, disk, local, failures, pure>>

\* _ => {}
output_other ==
    /\ NoDownRun
    /\ UNCHANGED <<pc, result, raw, alt, dashboard, failures, pure>>

-----------------------------------------------------------------------------
(* Dashboard::main_loop: one key event, routed by the mode *)

\* whether a file system call succeeds: the calls of one run fail at most
\* MaxFailures times
IoOutcomes == IF failures < MaxFailures THEN {TRUE, FALSE} ELSE {TRUE}

handle_normal_mode(key) ==
    /\ pc = "read"
    /\ mode = "Normal"
    /\ \/ key \in {Char("q"), Esc} /\ normal_quit
       \/ key \in {Char("j"), Down} /\ normal_down
       \/ key \in {Char("k"), Up} /\ normal_up
       \/ key = Enter /\ launch_nothing
       \/ key = Enter /\ \E outcome \in SpawnOutcomes :
                             \E stdout \in CapturedTexts, stderr \in CapturedTexts :
                                launch_captured(outcome, stdout, stderr)
       \/ key = Enter /\ \E outcome \in ReleaseOutcomes : launch_release(outcome)
       \/ key = Char("a") /\ normal_add
       \/ key = Char("d") /\ delete_nothing
       \/ key = Char("d") /\ delete_remove
       \/ key = Char("h") /\ normal_help
       \/ key = Char("r") /\ \E io_ok \in IoOutcomes : reload_config(io_ok)
       \/ /\ key \notin {Char("q"), Esc, Char("j"), Down, Char("k"), Up, Enter,
                         Char("a"), Char("d"), Char("h"), Char("r")}
          /\ normal_other

handle_add_program_mode(key) ==
    /\ pc = "read"
    /\ mode = "AddProgram"
    /\ \/ key = Esc /\ add_cancel
       \/ key = Enter /\ add_enter
       \/ key = Backspace /\ add_backspace
       \/ key[1] = "Char" /\ add_char(key[2])
       \/ key \notin {Esc, Enter, Backspace} /\ key[1] # "Char" /\ add_other

handle_help_mode(key) ==
    /\ pc = "read"
    /\ mode = "Help"
    /\ \/ key \in {Esc, Char("q"), Char("h")} /\ help_close
       \/ key \notin {Esc, Char("q"), Char("h")} /\ help_other

handle_show_output_mode(key) ==
    /\ pc = "read"
    /\ mode = "ShowOutput"
    /\ \/ key \in {Esc, Char(" "), Char("q")} /\ output_close
       \/ key \notin {Esc, Char(" "), Char("q")} /\ output_other

-----------------------------------------------------------------------------
(* The machine: the key events offered, and the steps *)

SpecialKeys == {Esc, Enter, Backspace, Down, Up, Tab}

\* Normal mode: every bound key and one unbound character; the add key while
\* the store is below MaxPrograms
NormalKeys ==
    SpecialKeys
      \cup { Char(c) : c \in {"q", "j", "k", "d", "h", "r", "x"} }
      \cup (IF Cardinality(DOMAIN config) < MaxPrograms THEN {Char("a")} ELSE {})

\* the texts typed into the text field of a step in the runs of the machine:
\* two names, one display name and one command; arguments and description
\* stay empty
StepTexts(step) ==
    CASE step = 0 -> { <<"a">>, <<"b">> }
      [] step \in {1, 2} -> { <<"a">> }
      [] OTHER -> {}

\* the characters typed at a flag step: the sudo flag is never switched on
FlagChars(step) == IF step = 5 THEN {"n", "N", "q"} ELSE {"y", "Y", "n", "N", "q"}

\* AddProgram mode: at a flag step its characters; at a text step the
\* characters that keep the field within the step's texts
WizardKeys ==
    SpecialKeys
      \cup { Char(c) : c \in
               (IF add_form.step \in {5, 6} THEN FlagChars(add_form.step)
                ELSE { t[Len(t)] : t \in
                         { u \in StepTexts(add_form.step) :
                             /\ Len(u) = Len(current_value(add_form)) + 1
                             /\ SubSeq(u, 1, Len(u) - 1) = current_value(add_form) } }) }

HelpKeys == {Esc, Enter, Char("q"), Char("h"), Char("x")}

OutputKeys == {Esc, Enter, Char(" "), Char("q"), Char("x")}

Next ==
    \/ \E outcome \in ReacquireOutcomes : run_begin(outcome)
    \/ main_loop_io_error
    \/ \E key \in NormalKeys : handle_normal_mode(key)
    \/ \E key \in WizardKeys : handle_add_program_mode(key)
    \/ \E key \in HelpKeys : handle_help_mode(key)
    \/ \E key \in OutputKeys : handle_show_output_mode(key)
    \/ \E spawn \in SpawnOutcomes, reacquire \in ReacquireOutcomes :
          launch_child(spawn, reacquire)
    \/ \E io_ok \in IoOutcomes : delete_save(io_ok)
    \/ save_new_program_add
    \/ \E io_ok \in IoOutcomes : save_new_program_save(io_ok)

Spec == Init /\ [][Next]_vars

-----------------------------------------------------------------------------
(* The combination rule of a captured run, on its own: the inputs are drawn   *)
(* in the initial state and one step applies the rule                         *)

OutChars == {"A", "B", "\n"}

InitCombine ==
    /\ fn_in \in StringsUpTo(OutChars, MaxOut) \X StringsUpTo(OutChars, MaxOut)
    /\ fn_out = None
    /\ pc = "pure"
    /\ result = "none"
    /\ raw = FALSE
    /\ alt = FALSE
    /\ config = EmptyPrograms
    /\ sorted = << >>
    /\ selected_index = 0
    /\ mode = "Normal"
    /\ add_form = AddProgramForm_new
    /\ status_message = None
    /\ output_data = None
    /\ disk = None
    /\ local = None
    /\ failures = 0
    /\ down_run = <<0, 0>>

apply_combined_output ==
    /\ pc = "pure"
    /\ fn_out = None
    /\ fn_out' = Some(combined_output(fn_in[1], fn_in[2]))
    /\ UNCHANGED <<pc, result, raw, alt, dashboard, history, fn_in>>

NextCombine == apply_combined_output

SpecCombine == InitCombine /\ [][NextCombine]_vars

-----------------------------------------------------------------------------
(* The wizard with every field in use: the add key (pressed while the store  *)
(* has no entry under the wizard's id), the wizard's keys with texts for all *)
(* five text fields and both flags, the persist step, and the reload key     *)

WizardId == <<"a">>

\* the texts typed into the text field of a step, with their prefixes
TypedTexts(step) ==
    CASE step = 0 -> { WizardId }
      [] step = 1 -> { <<"a">> }
      [] step = 2 -> { <<"a">> }
      [] step = 3 -> { <<" ">>, <<"a">>, <<"a", " ">>, <<"a", " ", "b">> }
      [] step = 4 -> { <<"d">> }
      [] OTHER -> {}

TypedFlagChars == {"y", "Y", "n", "N", "q"}

\* the characters typed at the current step
TypedChars ==
    IF add_form.step \in {5, 6} THEN TypedFlagChars
    ELSE { t[Len(t)] : t \in
             { u \in TypedTexts(add_form.step) :
                 /\ Len(u) = Len(current_value(add_form)) + 1
                 /\ SubSeq(u, 1, Len(u) - 1) = current_value(add_form) } }

TypingKeys == SpecialKeys \cup { Char(c) : c \in TypedChars }

NextWizard ==
    \/ \E outcome \in ReacquireOutcomes : run_begin(outcome)
    \/ pc = "read" /\ mode = "Normal" /\ WizardId \notin DOMAIN config /\ normal_add
    \/ pc = "read" /\ mode = "Normal" /\ \E io_ok \in IoOutcomes : reload_config(io_ok)
    \/ \E key \in TypingKeys : handle_add_program_mode(key)
    \/ save_new_program_add
    \/ \E io_ok \in IoOutcomes : save_new_program_save(io_ok)

SpecWizard == Init /\ [][NextWizard]_vars

-----------------------------------------------------------------------------
(* Loading: the program from the start of Dashboard::new, with a document    *)
(* that may be absent, written by the program or edited by hand, also while  *)
(* the dashboard runs; the reload, delete and down keys and the wizard       *)

\* a document edited by hand: serde_json accepts an entry under a key that is
\* not the entry's name
EditedDocument ==
    [k \in { <<"x">> } |->
       entry_to_json(ProgramEntry(<<"a">>, <<"a">>, <<"a">>, << >>, None, FALSE, FALSE))]

\* the documents Config::load may find
LoadDisks ==
    { None, Some(to_json(EmptyPrograms)), Some(to_json(Config_default)),
      Some(EditedDocument) }

InitLoad ==
    /\ pc = "new"
    /\ disk \in LoadDisks
    /\ config = EmptyPrograms
    /\ sorted = << >>
    /\ selected_index = 0
    /\ mode = "Normal"
    /\ add_form = AddProgramForm_new
    /\ status_message = None
    /\ output_data = None
    /\ result = "none"
    /\ raw = FALSE
    /\ alt = FALSE
    /\ local = None
    /\ failures = 0
    /\ down_run = <<0, 0>>
    /\ fn_in = << >>
    /\ fn_out = None

\* Dashboard::new: Config::load()?, then the fields; main returns the error
\* of a failed load
Dashboard_new(io_ok) ==
    LET loaded == Config_load(disk, io_ok)
    IN  /\ pc = "new"
        /\ disk' = loaded.disk
        /\ IF loaded.ok
           THEN /\ config' = loaded.programs
                /\ sorted' \in get_programs_orders(loaded.programs)
                /\ pc' = "run"
                /\ UNCHANGED <<result, failures>>
           ELSE /\ pc' = "done"
                /\ result' = "Err"
                /\ failures' = failures + 1
                /\ UNCHANGED <<config, sorted>>
        /\ UNCHANGED <<raw, alt, selected_index, mode, add_form, status_message,
                       output_data, local, down_run, pure>>

\* the document is replaced or removed from outside while the dashboard waits
\* for a key
document_edited ==
    /\ pc = "read"
    /\ \E d \in LoadDisks : d # disk /\ disk' = d
    /\ UNCHANGED <<pc, result, raw, alt, config, sorted, selected_index, mode,
                   add_form, status_message, output_data, local, history, pure>>

NextLoad ==
    \/ \E io_ok \in IoOutcomes : Dashboard_new(io_ok)
    \/ \E outcome \in ReacquireOutcomes : run_begin(outcome)
    \/ document_edited
    \/ pc = "read" /\ mode = "Normal" /\ \E io_ok \in IoOutcomes : reload_config(io_ok)
    \/ pc = "read" /\ mode = "Normal" /\ normal_down
    \/ pc = "read" /\ mode = "Normal" /\ delete_remove
    \/ \E io_ok \in IoOutcomes : delete_save(io_ok)
    \/ pc = "read" /\ mode = "Normal" /\ Cardinality(DOMAIN config) < MaxPrograms /\ normal_add
    \/ \E key \in WizardKeys : handle_add_program_mode(key)
    \/ save_new_program_add
    \/ \E io_ok \in IoOutcomes : save_new_program_save(io_ok)

SpecLoad == InitLoad /\ [][NextLoad]_vars

-----------------------------------------------------------------------------
(* draw_output_screen: the text shown for one line of the output, on its own *)

\* stands for a character of two bytes in UTF-8, such as e with an accent
WideChar == "#"

LineChars == {"A", WideChar}

\* str::len: the length in bytes
RECURSIVE byte_len(_)
byte_len(s) ==
    IF s = << >> THEN 0
    ELSE (IF Head(s) = WideChar THEN 2 ELSE 1) + byte_len(Tail(s))

\* u16::saturating_sub, usize::saturating_sub
saturating_sub(a, b) == IF a > b THEN a - b ELSE 0

\* str::is_char_boundary for n <= byte_len(s)
is_char_boundary(s, n) == \E i \in 0..Len(s) : byte_len(SubSeq(s, 1, i)) = n

\* &s[0..n] for a boundary n: the characters of the first n bytes
byte_prefix(s, n) ==
    SubSeq(s, 1, CHOOSE i \in 0..Len(s) : byte_len(SubSeq(s, 1, i)) = n)

S_dots == <<".", ".", ".">>

\* display_line for max_content_width = w: the slice panics when w - 3 is not
\* a character boundary of the line
display_line(line, w) ==
    IF byte_len(line) > w
    THEN IF is_char_boundary(line, saturating_sub(w, 3))
         THEN [panic |-> FALSE,
               text |-> byte_prefix(line, saturating_sub(w, 3)) \o S_dots]
         ELSE [panic |-> TRUE, text |-> << >>]
    ELSE [panic |-> FALSE, text |-> line]

InitTruncate ==
    /\ fn_in \in StringsUpTo(LineChars, MaxLine) \X (0..MaxWidth)
    /\ fn_out = None
    /\ pc = "pure"
    /\ result = "none"
    /\ raw = FALSE
    /\ alt = FALSE
    /\ config = EmptyPrograms
    /\ sorted = << >>
    /\ selected_index = 0
    /\ mode = "ShowOutput"
    /\ add_form = AddProgramForm_new
    /\ status_message = None
    /\ output_data = None
    /\ disk = None
    /\ local = None
    /\ failures = 0
    /\ down_run = <<0, 0>>

apply_display_line ==
    /\ pc = "pure"
    /\ fn_out = None
    /\ fn_out' = Some(display_line(fn_in[1], fn_in[2]))
    /\ UNCHANGED <<pc, result, raw, alt, dashboard, history, fn_in>>

NextTruncate == apply_display_line

SpecTruncate == InitTruncate /\ [][NextTruncate]_vars

-----------------------------------------------------------------------------
(* Dashboard::draw: the unsigned subtractions a frame performs, on their own. *)
(* The subtractions under a guard (width - text length under width > length) *)
(* and the saturating ones cannot go below zero and are left out.            *)

Sub(site, value) == [site |-> site, value |-> value]

\* draw_main_screen: the status line when a status is set, and the bottom bar
main_screen_subtractions(height, has_status) ==
    (IF has_status THEN { Sub("height - 3", height - 3) } ELSE {})
      \cup { Sub("height - 1", height - 1) }

\* draw_add_program_screen: the bottom bar
add_program_screen_subtractions(height) == { Sub("height - 1", height - 1) }

\* draw_help_screen subtracts only under a guard
help_screen_subtractions == {}

\* draw_output_screen with an output record: the two borders, the right
\* border of every content row, and the bottom line
output_screen_subtractions(width, height) ==
    LET box_width == saturating_sub(width, 4)
        box_height == saturating_sub(height, 4)
        content_height == saturating_sub(box_height, 2)
    IN  { Sub("box_width - 2", box_width - 2),
          Sub("height - 2", height - 2),
          Sub("height - 1", height - 1) }
          \cup (IF content_height > 0 THEN { Sub("box_width - 1", box_width - 1) }
                ELSE {})

\* the subtractions of one frame
frame_subtractions(m, width, height, has_status) ==
    CASE m = "Normal" -> main_screen_subtractions(height, has_status)
      [] m = "AddProgram" -> add_program_screen_subtractions(height)
      [] m = "Help" -> help_screen_subtractions
      [] m = "ShowOutput" -> output_screen_subtractions(width, height)

\* whether the frame aborts: with overflow checks the first subtraction below
\* zero panics; without them the value wraps, and the border's str::repeat of
\* the wrapped box_width - 2 panics with a capacity overflow
frame_aborts(subtractions, overflow_checks) ==
    \E s \in subtractions :
        s.value < 0 /\ (overflow_checks \/ s.site = "box_width - 2")

Modes == {"Normal", "AddProgram", "Help", "ShowOutput"}

InitDraw ==
    /\ fn_in \in Modes \X (0..MaxSize) \X (0..MaxSize) \X BOOLEAN
    /\ fn_out = None
    /\ pc = "pure"
    /\ result = "none"
    /\ raw = TRUE
    /\ alt = TRUE
    /\ config = EmptyPrograms
    /\ sorted = << >>
    /\ selected_index = 0
    /\ mode = fn_in[1]
    /\ add_form = AddProgramForm_new
    /\ status_message = None
    /\ output_data = None
    /\ disk = None
    /\ local = None
    /\ failures = 0
    /\ down_run = <<0, 0>>

\* one frame is computed by a build with or without overflow checks
draw_frame(overflow_checks) ==
    /\ pc = "pure"
    /\ fn_out = None
    /\ LET subtractions == frame_subtractions(fn_in[1], fn_in[2], fn_in[3], fn_in[4])
       IN  fn_out' = Some([subtractions |-> subtractions,
                           aborts |-> frame_aborts(subtractions, overflow_checks)])
    /\ UNCHANGED <<pc, result, raw, alt, dashboard, history, fn_in>>

NextDraw == \E overflow_checks \in BOOLEAN : draw_frame(overflow_checks)

SpecDraw == InitDraw /\ [][NextDraw]_vars

-----------------------------------------------------------------------------
(* Properties *)

\* the persisted document holds exactly the programs of the store
InSync == disk = Some(to_json(config))

IsErrorStatus(status) ==
    /\ status # None
    /\ status[1][1] \in {"Error saving config: ", "Error reloading config: ",
                         "Error launching "}

\* C1: whenever an event is awaited and the program list is not empty,
\* selected_index is below the length of the list
C1_SelectionInRange ==
    (pc = "read" /\ Len(sorted) > 0) => selected_index < Len(sorted)

\* C2: a delete that removed the last element of the list (the index now
\* equals the new length) ends with selected_index at the new length - 1, or
\* at 0 when the list became empty
C2_DeleteLastClamps ==
    [][ (pc = "delete_save" /\ selected_index = Len(sorted))
          => selected_index' = (IF Len(sorted) = 0 THEN 0 ELSE Len(sorted) - 1) ]_vars

\* C3: in Normal mode with a list of n > 0 programs, after exactly n
\* consecutive down keys selected_index is what it was before the first
C3_DownWraps ==
    (pc = "read" /\ mode = "Normal" /\ Len(sorted) > 0 /\ down_run[1] = Len(sorted))
        => selected_index = down_run[2]

\* C4: Enter at step 6 with an empty name, display name or command leaves the
\* step at 6, the mode AddProgram and the store and the document as they are;
\* with all three filled the step becomes 7 and save_new_program is entered,
\* whose first step puts the form's entry into the store
C4_Step6Gate ==
    /\ [][ (add_form.step = 6 /\ handle_add_program_mode(Enter))
             => IF \/ add_form.name = << >>
                   \/ add_form.display_name = << >>
                   \/ add_form.command = << >>
                THEN /\ add_form'.step = 6
                     /\ mode' = "AddProgram"
                     /\ pc' = "read"
                     /\ config' = config
                     /\ disk' = disk
                ELSE /\ add_form'.step = 7
                     /\ pc' = "save_new_program" ]_vars
    /\ [][ pc = "save_new_program"
             => /\ add_form.name \in DOMAIN config'
                /\ config'[add_form.name].display_name = add_form.display_name
                /\ config'[add_form.name].command = add_form.command ]_vars

C4_Witness ==
    /\ pc = "add_save"
    /\ add_form.step = 7
    /\ add_form.name \in DOMAIN config
    /\ add_form.name \notin DOMAIN disk[1]

\* C5: an event is read only with raw mode on and the alternate screen
\* entered; the child of a foreground launch runs with both given up; while
\* main_loop goes on nothing but the release step of a foreground launch
\* (show_output false) gives either up; and when the child attempt has ended,
\* however it ended, the terminal is held again at the next read (or taking
\* it back failed and main_loop ended with that error)
C5_TerminalDiscipline ==
    /\ [](pc = "read" => raw /\ alt)
    /\ [](pc = "child" => ~raw /\ ~alt)
    /\ [][ (pc' # "done" /\ ((raw /\ ~raw') \/ (alt /\ ~alt')))
             => /\ pc = "read"
                /\ mode = "Normal"
                /\ HasSelected
                /\ ~SelectedProgram.show_output
                /\ pc' = "child" ]_vars
    /\ [][ \A spawn \in SpawnOutcomes :
             launch_child(spawn, "ok") => (pc' = "read" /\ raw' /\ alt') ]_vars
    /\ [][ pc = "child" => (pc' = "read" \/ (pc' = "done" /\ result' = "Err")) ]_vars

C5_Witness ==
    /\ pc = "read"
    /\ raw
    /\ alt
    /\ HasSelected
    /\ SelectedProgram.display_name = S_SystemMonitor
    /\ status_message = Some(Msg_ErrorLaunching(S_SystemMonitor, S_error))

\* the steps in which an operation fails and the dashboard goes on
PersistFailsAfterDelete == delete_save(FALSE)
PersistFailsAfterWizard == save_new_program_save(FALSE)
ReloadFails == pc = "read" /\ mode = "Normal" /\ reload_config(FALSE)
CapturedSpawnFails ==
    /\ pc = "read"
    /\ mode = "Normal"
    /\ \E stdout \in CapturedTexts, stderr \in CapturedTexts :
          launch_captured("spawn_failed", stdout, stderr)
ForegroundSpawnFails == launch_child("spawn_failed", "ok")

RecoverableFailure ==
    \/ PersistFailsAfterDelete
    \/ PersistFailsAfterWizard
    \/ ReloadFails
    \/ CapturedSpawnFails
    \/ ForegroundSpawnFails

SaveSucceeds == delete_save(TRUE) \/ save_new_program_save(TRUE)

C8_ReconciledWithoutFailures ==
    failures = 0 =>
        /\ pc \notin {"delete_save", "add_save", "pure"} => InSync
        /\ pc = "delete_save" =>
              /\ local[1].name \in DOMAIN disk[1]
              /\ config = Remove(from_json(disk[1]), local[1].name)
        /\ pc = "add_save" =>
              /\ add_form.name \in DOMAIN config
              /\ \A k \in DOMAIN config \ {add_form.name} :
                    k \in DOMAIN disk[1] /\ config[k] = from_json(disk[1])[k]
              /\ DOMAIN disk[1] \subseteq DOMAIN config

C8_Witness ==
    /\ failures = 0
    /\ pc = "read"
    /\ InSync
    /\ status_message = Some(Msg_Added(<<"a">>))
    /\ Cardinality(DOMAIN config) = 2

\* C9: the reload key in Normal mode: a load that succeeds makes the store the
\* document's program set and selected_index 0; a load that fails leaves store
\* and selected_index as they are and sets an error status; the mode stays
\* Normal either way
C9_Reload ==
    [][ \A io_ok \in BOOLEAN :
          (handle_normal_mode(Char("r")) /\ reload_config(io_ok))
            => /\ mode' = "Normal"
               /\ pc' = "read"
               /\ status_message' # None
               /\ (io_ok /\ disk # None)
                    => (config' = from_json(disk[1]) /\ selected_index' = 0)
               /\ ~io_ok
                    => /\ config' = config
                       /\ selected_index' = selected_index
                       /\ IsErrorStatus(status_message') ]_vars

C9_Witness ==
    /\ pc = "read"
    /\ mode = "Normal"
    /\ status_message = Some(Msg_Reloaded)
    /\ failures = 1
    /\ selected_index = 0
    /\ Cardinality(DOMAIN config) = 2
    /\ InSync

\* C10: the text shown is stdout when stderr is empty, stderr when only
\* stdout is empty, and otherwise "STDOUT:\n" stdout "\n\nSTDERR:\n" stderr
C10_CombinedOutput ==
    fn_out # None =>
        LET stdout == fn_in[1]
            stderr == fn_in[2]
            shown == fn_out[1]
        IN  /\ stderr = << >> => shown = stdout
            /\ (stderr # << >> /\ stdout = << >>) => shown = stderr
            /\ (stderr # << >> /\ stdout # << >>) =>
                  shown = <<"S", "T", "D", "O", "U", "T", ":", "\n">> \o stdout
                            \o <<"\n", "\n", "S", "T", "D", "E", "R", "R", ":", "\n">>
                            \o stderr

C10_Witness ==
    /\ fn_in = << <<"A">>, <<"B">> >>
    /\ fn_out = Some(<<"S", "T", "D", "O", "U", "T", ":", "\n", "A", "\n", "\n",
                       "S", "T", "D", "E", "R", "R", ":", "\n", "B">>)


\* C11: a captured launch whose spawn succeeded, with exit status zero or not,
\* moves the mode from Normal to ShowOutput and sets the output record to the
\* launched program's display name and the combined text; one whose spawn
\* failed leaves the mode Normal and the output record absent
C11_CapturedLaunch ==
    [][ \A outcome \in SpawnOutcomes, stdout \in CapturedTexts, stderr \in CapturedTexts :
          (handle_normal_mode(Enter) /\ launch_captured(outcome, stdout, stderr))
            => IF outcome # "spawn_failed"
               THEN /\ mode' = "ShowOutput"
                    /\ output_data' # None
                    /\ output_data'[1][1] = SelectedProgram.display_name
                    /\ output_data'[1][2] =
                         (IF stderr = << >> THEN stdout
                          ELSE IF stdout = << >> THEN stderr
                          ELSE S_STDOUT \o stdout \o S_STDERR \o stderr)
               ELSE /\ mode' = "Normal"
                    /\ output_data' = None ]_vars

C11_Witness ==
    /\ pc = "read"
    /\ mode = "ShowOutput"
    /\ output_data = Some(<<(<<"a">>), S_STDOUT \o <<"A">> \o S_STDERR \o <<"A">> >>)
    /\ status_message = Some(Msg_ExecutedWithErrors(<<"a">>))

\* C12: in Help mode every key event moves the mode to Normal
C12_HelpAnyKeyCloses ==
    (pc = "read" /\ mode = "Help")
        => \A key \in HelpKeys : ~ENABLED (handle_help_mode(key) /\ mode' # "Normal")


QuitKeys == {Char("q"), Esc}

\* C15: run returns Ok only through a quit key (q or Esc) handled in Normal
\* mode; no key event of AddProgram, Help or ShowOutput mode ends main_loop,
\* the persist steps of a wizard save or a delete included; in Normal mode no
\* key but q and Esc ends it, except that Enter ends it with an error when a
\* terminal call of a foreground launch fails
C15_QuitOnlyInNormal ==
    /\ [][ (pc' = "done" /\ result' = "Ok")
             => \E key \in QuitKeys : handle_normal_mode(key) ]_vars
    /\ [][ \A key \in WizardKeys : handle_add_program_mode(key) => pc' # "done" ]_vars
    /\ [][ \A key \in HelpKeys : handle_help_mode(key) => pc' # "done" ]_vars
    /\ [][ \A key \in OutputKeys : handle_show_output_mode(key) => pc' # "done" ]_vars
    /\ [][ (pc \in {"save_new_program", "add_save", "delete_save"}) => pc' # "done" ]_vars
    /\ [][ \A key \in NormalKeys \ QuitKeys :
             (handle_normal_mode(key) /\ pc' = "done")
               => (key = Enter /\ result' = "Err") ]_vars
    /\ [][ (pc = "child" /\ pc' = "done") => result' = "Err" ]_vars

C15_Witness ==
    /\ pc = "done"
    /\ result = "Ok"
    /\ mode = "Normal"
    /\ ~raw
    /\ ~alt
    /\ status_message = Some(Msg_Added(<<"a">>))

\* the value AddProgramForm::new gives
InitialForm(form) ==
    /\ form.step = 0
    /\ form.name = << >>
    /\ form.display_name = << >>
    /\ form.command = << >>
    /\ form.args = << >>
    /\ form.description = << >>
    /\ ~form.run_with_sudo
    /\ ~form.show_output

\* C16: whenever the mode is not AddProgram the form has its initial value;
\* right after the add key in Normal mode the mode is AddProgram and the form
\* has its initial value; so it is after Esc in the wizard and after a save,
\* whether its persist succeeded or failed
C16_FormResetOutsideWizard ==
    /\ [](mode # "AddProgram" => InitialForm(add_form))
    /\ [][ handle_normal_mode(Char("a"))
             => (mode' = "AddProgram" /\ InitialForm(add_form')) ]_vars
    /\ [][ handle_add_program_mode(Esc)
             => (mode' = "Normal" /\ InitialForm(add_form')) ]_vars
    /\ [][ \A io_ok \in BOOLEAN :
             save_new_program_save(io_ok)
               => (mode' = "Normal" /\ InitialForm(add_form')) ]_vars

C16_Witness ==
    /\ pc = "read"
    /\ mode = "Normal"
    /\ InitialForm(add_form)
    /\ status_message = Some(Msg_ErrorSaving(S_error))
    /\ failures = 1
    /\ <<"b">> \in DOMAIN config
    /\ <<"b">> \notin DOMAIN disk[1]

CloseKeys == {Esc, Char(" "), Char("q")}

\* C17: an output record is present exactly when the mode is ShowOutput; Esc,
\* Space or q in ShowOutput moves to Normal and discards the record, any other
\* key there leaves mode and record as they are
C17_OutputRecordIffShowOutput ==
    /\ []((output_data # None) <=> (mode = "ShowOutput"))
    /\ [][ \A key \in CloseKeys :
             handle_show_output_mode(key)
               => (mode' = "Normal" /\ output_data' = None) ]_vars
    /\ [][ \A key \in OutputKeys \ CloseKeys :
             handle_show_output_mode(key)
               => (mode' = mode /\ output_data' = output_data) ]_vars

C17_Witness ==
    /\ pc = "read"
    /\ mode = "Normal"
    /\ output_data = None
    /\ status_message = Some(Msg_Executed(<<"a">>))
    /\ HasSelected
    /\ SelectedProgram.show_output


\* the whitespace-separated tokens of the argument texts typed
TokensOf(text) ==
    CASE text \in { << >>, <<" ">> } -> << >>
      [] text \in { <<"a">>, <<"a", " ">> } -> << <<"a">> >>
      [] text = <<"a", " ", "b">> -> << <<"a">>, <<"b">> >>

\* the store after the wizard's entry went in: an entry under the wizard's id
\* with the wizard's values, every other entry as before
WizardEntryStored ==
    [][ (pc = "save_new_program")
          => LET id == add_form.name
             IN  /\ DOMAIN config' = DOMAIN config \cup {id}
                 /\ config'[id].name = id
                 /\ config'[id].display_name = add_form.display_name
                 /\ config'[id].command = add_form.command
                 /\ config'[id].run_with_sudo = add_form.run_with_sudo
                 /\ config'[id].show_output = add_form.show_output
                 /\ config'[id].args = TokensOf(add_form.args)
                 /\ (config'[id].description = None) <=> (add_form.description = << >>)
                 /\ add_form.description # << >>
                      => config'[id].description = Some(add_form.description)
                 /\ \A k \in DOMAIN config \ {id} : config'[k] = config[k] ]_vars

\* the last event that set the status was a wizard save with the given results
AfterWizardSave(statuses) ==
    /\ pc = "read"
    /\ mode = "Normal"
    /\ status_message # None
    /\ status_message[1][1] \in statuses

\* a reload that succeeds yields the wizard's entry as the store holds it
ReloadYieldsWizardEntry ==
    /\ reload_config(TRUE)
    /\ disk # None
    => /\ WizardId \in DOMAIN config'
       /\ config'[WizardId] = config[WizardId]

TextFields == <<"name", "display_name", "command", "args", "description">>

AllTypedChars == {"a", "b", "d", " ", "y", "Y", "n", "N", "q"}

\* everything of the dashboard but the form is as it was
OnlyFormMayChange ==
    /\ pc' = pc
    /\ mode' = mode
    /\ config' = config
    /\ disk' = disk
    /\ selected_index' = selected_index
    /\ status_message' = status_message
    /\ output_data' = output_data

\* what a character key must do to the form
CharKeyEffect(c) ==
    /\ OnlyFormMayChange
    /\ add_form'.step = add_form.step
    /\ add_form.step \in 0..4 =>
         /\ \A i \in 1..5 :
               add_form'[TextFields[i]] =
                 (IF i = add_form.step + 1
                  THEN add_form[TextFields[i]] \o <<c>>
                  ELSE add_form[TextFields[i]])
         /\ add_form'.run_with_sudo = add_form.run_with_sudo
         /\ add_form'.show_output = add_form.show_output
    /\ add_form.step \in {5, 6} =>
         /\ \A i \in 1..5 : add_form'[TextFields[i]] = add_form[TextFields[i]]
         /\ add_form'.run_with_sudo =
              (IF add_form.step = 5 /\ c \in {"y", "Y"} THEN TRUE
               ELSE IF add_form.step = 5 /\ c \in {"n", "N"} THEN FALSE
               ELSE add_form.run_with_sudo)
         /\ add_form'.show_output =
              (IF add_form.step = 6 /\ c \in {"y", "Y"} THEN TRUE
               ELSE IF add_form.step = 6 /\ c \in {"n", "N"} THEN FALSE
               ELSE add_form.show_output)

\* C20: a character key in AddProgram mode changes neither the step nor the
\* mode; at steps 0 to 4 it appends the character to the field of the step
\* and changes no other field; at steps 5 and 6, y and Y set the flag of the
\* step to true, n and N set it to false, and any other character changes
\* nothing
C20_CharKey ==
    (pc = "read" /\ mode = "AddProgram")
        => \A c \in AllTypedChars :
              ~ENABLED (handle_add_program_mode(Char(c)) /\ ~CharKeyEffect(c))

C20_Witness ==
    /\ pc = "read"
    /\ mode = "AddProgram"
    /\ add_form.step = 6
    /\ add_form.args = <<"a", " ", "b">>
    /\ add_form.description = <<"d">>
    /\ add_form.run_with_sudo
    /\ add_form.show_output


\* the built-in programs
BuiltInPrograms ==
    [k \in {S_htop, S_vim} |->
       IF k = S_htop
       THEN [name |-> S_htop, display_name |-> S_SystemMonitor, command |-> S_htop,
             args |-> << >>, description |-> Some(S_SystemResourceMonitor),
             run_with_sudo |-> FALSE, show_output |-> FALSE]
       ELSE [name |-> S_vim, display_name |-> S_TextEditor, command |-> S_vim,
             args |-> << >>, description |-> Some(S_VimTextEditor),
             run_with_sudo |-> FALSE, show_output |-> FALSE]]

\* C18: a load that finds no document, at startup or on the reload key, yields
\* the built-in programs and leaves a document that holds them; when the write
\* of that document fails the load fails: Dashboard::new returns the error, a
\* reload keeps store and selection and sets an error status
C18_LoadWithoutDocument ==
    /\ [][ \A io_ok \in BOOLEAN :
             (disk = None /\ Dashboard_new(io_ok))
               => IF io_ok
                  THEN /\ pc' = "run"
                       /\ config' = BuiltInPrograms
                       /\ disk' # None
                       /\ from_json(disk'[1]) = BuiltInPrograms
                  ELSE /\ pc' = "done"
                       /\ result' = "Err" ]_vars
    /\ [][ \A io_ok \in BOOLEAN :
             (disk = None /\ pc = "read" /\ mode = "Normal" /\ reload_config(io_ok))
               => IF io_ok
                  THEN /\ config' = BuiltInPrograms
                       /\ disk' # None
                       /\ from_json(disk'[1]) = BuiltInPrograms
                  ELSE /\ config' = config
                       /\ selected_index' = selected_index
                       /\ IsErrorStatus(status_message')
                       /\ pc' = "read" ]_vars

C18_Witness ==
    /\ pc = "read"
    /\ status_message = Some(Msg_ErrorReloading(S_error))
    /\ disk = None
    /\ DOMAIN config = {S_vim}
    /\ failures = 1


\* C14: every key of the store is the name of the entry it maps to; a wizard
\* save under a name the store already holds replaces that entry, the store
\* keeping its size and the entry taking the form's values, and ends as any
\* save does, in Normal mode with the status of an added program when the
\* persist step succeeds
C14_IdsUnique ==
    /\ [](\A k \in DOMAIN config : config[k].name = k)
    /\ [][ (pc = "save_new_program" /\ add_form.name \in DOMAIN config)
             => /\ Cardinality(DOMAIN config') = Cardinality(DOMAIN config)
                /\ config'[add_form.name].display_name = add_form.display_name
                /\ config'[add_form.name].command = add_form.command
                /\ config'[add_form.name].show_output = add_form.show_output
                /\ pc' = "add_save" ]_vars
    /\ [][ (pc = "add_save" /\ save_new_program_save(TRUE))
             => /\ pc' = "read"
                /\ mode' = "Normal"
                /\ status_message' = Some(Msg_Added(add_form.display_name)) ]_vars


\* C19: for an interior width w, a line of more than w characters is shown as
\* its first w - 3 characters followed by "...", a line of at most w
\* characters is shown as it is, and no line shown is longer than w
C19_Truncation ==
    fn_out # None =>
        LET line == fn_in[1]
            w == fn_in[2]
            shown == fn_out[1]
        IN  /\ ~shown.panic
            /\ Len(line) > w => shown.text = SubSeq(line, 1, w - 3) \o <<".", ".", ".">>
            /\ Len(line) <= w => shown.text = line
            /\ Len(shown.text) <= w


\* what the delete key must do while a row is selected: the entry of that row,
\* and no other, leaves the store and the mode stays Normal
DeleteKeyEffect ==
    /\ DOMAIN config' = DOMAIN config \ {SelectedKey}
    /\ \A k \in DOMAIN config' : config'[k] = config[k]
    /\ mode' = "Normal"

\* C21: the delete key in Normal mode removes from the store exactly the entry
\* at selected_index of the sorted list and leaves the mode Normal; when
\* selected_index is no position of the list (the empty list included) it
\* changes neither store, document, selected_index nor status
C21_DeleteKey ==
    (pc = "read" /\ mode = "Normal")
        => IF HasSelected
           THEN ~ENABLED (handle_normal_mode(Char("d")) /\ ~DeleteKeyEffect)
           ELSE ~ENABLED (/\ handle_normal_mode(Char("d"))
                          /\ ~(/\ config' = config
                               /\ disk' = disk
                               /\ selected_index' = selected_index
                               /\ status_message' = status_message
                               /\ pc' = "read"))


HasRequiredFields(e) == e.name # << >> /\ e.display_name # << >> /\ e.command # << >>

\* C23: the documents loaded holding entries with non-empty name, display
\* name and command only, every entry of the store has the three non-empty
\* after any wizard, delete and reload events, and the wizard never stores an
\* entry in which one of them is empty
C23_RequiredFieldsNonEmpty ==
    /\ [](\A k \in DOMAIN config : HasRequiredFields(config[k]))
    /\ [][ (pc = "save_new_program")
             => /\ HasRequiredFields(add_form)
                /\ HasRequiredFields(config'[add_form.name]) ]_vars

C23_Witness ==
    /\ pc = "read"
    /\ mode = "Normal"
    /\ status_message = Some(Msg_Added(<<"a">>))
    /\ DOMAIN config = { <<"x">>, <<"b">> }
    /\ failures > 0


\* what a Backspace key must do to the form
BackspaceEffect ==
    /\ OnlyFormMayChange
    /\ add_form'.step = add_form.step
    /\ add_form.step \in 0..4 =>
         /\ \A i \in 1..5 :
               add_form'[TextFields[i]] =
                 (IF i = add_form.step + 1 /\ add_form[TextFields[i]] # << >>
                  THEN SubSeq(add_form[TextFields[i]], 1, Len(add_form[TextFields[i]]) - 1)
                  ELSE add_form[TextFields[i]])
         /\ add_form'.run_with_sudo = add_form.run_with_sudo
         /\ add_form'.show_output = add_form.show_output
    /\ add_form.step \in {5, 6} =>
         /\ \A i \in 1..5 : add_form'[TextFields[i]] = add_form[TextFields[i]]
         /\ add_form'.run_with_sudo =
              (IF add_form.step = 5 THEN FALSE ELSE add_form.run_with_sudo)
         /\ add_form'.show_output =
              (IF add_form.step = 6 THEN FALSE ELSE add_form.show_output)

\* C25: Backspace in AddProgram mode at step 5 or 6 sets the flag of the step
\* to false whatever it was and changes no text field, not the other flag,
\* the step or the mode; at steps 0 to 4 it removes the last character of the
\* field of the step, nothing when the field is empty, and changes nothing
\* else
C25_Backspace ==
    (pc = "read" /\ mode = "AddProgram")
        => ~ENABLED (handle_add_program_mode(Backspace) /\ ~BackspaceEffect)

C25_Witness ==
    /\ pc = "read"
    /\ mode = "AddProgram"
    /\ add_form.step = 6
    /\ add_form.args = <<"a">>
    /\ add_form.description = << >>
    /\ add_form.run_with_sudo
    /\ ~add_form.show_output

\* C26: Esc is handled at every read; in AddProgram, Help or ShowOutput mode
\* it leads to Normal mode at the next read with the store untouched, and in
\* Normal mode it ends main_loop: two Esc keys in a row end it from every
\* state
C26_TwoEscQuit ==
    /\ [](pc = "read" =>
            ENABLED (\/ handle_normal_mode(Esc)
                     \/ handle_add_program_mode(Esc)
                     \/ handle_help_mode(Esc)
                     \/ handle_show_output_mode(Esc)))
    /\ [][ (\/ handle_add_program_mode(Esc)
            \/ handle_help_mode(Esc)
            \/ handle_show_output_mode(Esc))
             => (pc' = "read" /\ mode' = "Normal" /\ config' = config) ]_vars
    /\ [][ handle_normal_mode(Esc) => pc' = "done" ]_vars

C26_Witness ==
    /\ pc = "done"
    /\ result = "Ok"
    /\ mode = "Normal"
    /\ output_data = None
    /\ status_message = Some(Msg_Executed(<<"a">>))


\* C24: for every terminal size and every mode no subtraction of the frame
\* goes below zero, and drawing does not abort
C24_NoSubtractionBelowZero ==
    fn_out # None =>
        /\ \A s \in fn_out[1].subtractions : s.value >= 0
        /\ ~fn_out[1].aborts

====
